---- MODULE Spec2Model ----
(***************************************************************************)
(* PyDQKit: the regex column checker (regex_shell.check_regex_column), the *)
(* interactive rule shell (regex_shell.interactive_shell) and the report   *)
(* builders (exporters.build_summary_df, build_failed_rows_df,             *)
(* export_excel, export_html) and the script of the exported dashboard.    *)
(*                                                                         *)
(* Text is a sequence of one-character strings, so that matching, case     *)
(* folding and number formatting are computed, not assumed.                *)
(***************************************************************************)
EXTENDS Integers, Sequences, FiniteSets

VARIABLES df, history, in_rule, rule_lines, pc, line, out, page

vars == <<df, history, in_rule, rule_lines, pc, line, out, page>>

(* ------------------------------ bounds -------------------------------- *)
MaxRows == 2
MaxHistory == 2
MaxRuleLines == 1

(* --------------------------- generic helpers -------------------------- *)
RECURSIVE JoinWith(_, _)
JoinWith(sep, ss) ==
    IF ss = <<>> THEN <<>>
    ELSE IF Len(ss) = 1 THEN Head(ss)
    ELSE Head(ss) \o sep \o JoinWith(sep, Tail(ss))

RECURSIVE GCD(_, _)
GCD(a, b) == IF b = 0 THEN a ELSE GCD(b, a % b)

Range(f) == {f[i] : i \in DOMAIN f}

NoDup(s) == \A i, j \in DOMAIN s : s[i] = s[j] => i = j

(* ------------------------------- text --------------------------------- *)
UpperChar(c) ==
    CASE c = "a" -> "A" [] c = "b" -> "B" [] c = "c" -> "C" [] c = "e" -> "E"
      [] c = "i" -> "I" [] c = "n" -> "N" [] c = "t" -> "T" [] c = "v" -> "V"
      [] OTHER -> c

Upper(s) == [i \in DOMAIN s |-> UpperChar(s[i])]

Digit(d) ==
    CASE d = 0 -> "0" [] d = 1 -> "1" [] d = 2 -> "2" [] d = 3 -> "3" [] d = 4 -> "4"
      [] d = 5 -> "5" [] d = 6 -> "6" [] d = 7 -> "7" [] d = 8 -> "8" [] OTHER -> "9"

RECURSIVE IntToStr(_)
IntToStr(n) == IF n < 10 THEN <<Digit(n)>> ELSE IntToStr(n \div 10) \o <<Digit(n % 10)>>

IsSubstring(a, v) ==
    \E k \in 0..(Len(v) - Len(a)) : SubSeq(v, k + 1, k + Len(a)) = a

(* ------------------------------- cells -------------------------------- *)
(* A dataset cell: the null sentinel (None / NaN), a string, an integer   *)
(* or a float with one decimal (n counts tenths).                         *)
NullCell == [t |-> "null", n |-> 0, s |-> <<>>]
StrCell(s) == [t |-> "str", n |-> 0, s |-> s]
IntCell(n) == [t |-> "int", n |-> n, s |-> <<>>]
FloatCell(n) == [t |-> "float", n |-> n, s |-> <<>>]

None == [some |-> FALSE, s |-> <<>>]
Some(s) == [some |-> TRUE, s |-> s]

_to_str_or_none(x) ==
    IF x.t = "null" THEN None
    ELSE IF x.t = "str" THEN Some(x.s)
    ELSE IF x.t = "int" THEN Some(IntToStr(x.n))
    ELSE Some(IntToStr(x.n \div 10) \o <<".">> \o IntToStr(x.n % 10))

(* ------------------------------ datasets ------------------------------ *)
(* A DataFrame: its index (row identifiers, unique), its ordered columns  *)
(* and, per column, the cells in row order.                               *)
sACTIVE == <<"A", "C", "T", "I", "V", "E">>
sINACTIVE == <<"I", "N", "A", "C", "T", "I", "V", "E">>
sBAD == <<"B", "A", "D">>
sinactive == <<"i", "n", "a", "c", "t", "i", "v", "e">>

CellVals == {NullCell, StrCell(sINACTIVE), StrCell(sinactive)}

RangeIndex(n) == [i \in 1..n |-> i - 1]
ReversedIndex(n) == [i \in 1..n |-> n - i]

AmountCell(p) == IF p % 2 = 0 THEN NullCell ELSE IntCell(p + 9)

MakeDF(index, status) ==
    [index |-> index,
     columns |-> <<"status", "amount">>,
     data |-> [c \in {"status", "amount"} |->
                  IF c = "status" THEN status
                  ELSE [p \in DOMAIN index |-> AmountCell(p)]]]

(* Generated frames carry row labels that differ from the row positions   *)
(* (labels n-1 .. 0); the demo frame has the default RangeIndex.          *)
GeneratedDFs ==
    { MakeDF(ix, st) :
        ix \in { ReversedIndex(n) : n \in 0..MaxRows },
        st \in UNION { [1..n -> CellVals] : n \in 0..MaxRows } }

DemoDF ==
    [index |-> RangeIndex(6),
     columns |-> <<"id", "status", "amount">>,
     data |-> [c \in {"id", "status", "amount"} |->
        IF c = "status" THEN
            <<StrCell(sACTIVE), StrCell(sINACTIVE), StrCell(sBAD),
              StrCell(sACTIVE), NullCell, StrCell(sinactive)>>
        ELSE IF c = "amount" THEN
            <<IntCell(10), FloatCell(205), StrCell(<<"3", "0">>),
              NullCell, StrCell(<<"x", "x">>), IntCell(999)>>
        ELSE
            <<StrCell(<<"A", "B", "1", "2", "3", "4", "5", "6">>),
              StrCell(<<"Z", "Z", "0", "0", "0", "0", "0", "1">>),
              StrCell(<<"A", "1", "2", "3">>), NullCell,
              StrCell(<<"a", "b", "1", "2", "3", "4", "5", "6">>),
              StrCell(<<"A", "A", "9", "9", "9", "9", "9", "9">>)>>]]

DataFrames ==
    { d \in GeneratedDFs : Len(d.index) = Len(d.data["status"]) } \cup {DemoDF}

HasColumn(d, column) == \E i \in DOMAIN d.columns : d.columns[i] = column

(* ------------------------------- regex -------------------------------- *)
(* The patterns the shell is fed, as re.compile reads them: an            *)
(* alternation of literals, anchored (^(..)$) or not; anything else, such *)
(* as "(", does not compile.                                              *)
_FLAG_MAP(x) ==
    CASE x \in {"IGNORECASE", "I"} -> {"IGNORECASE"}
      [] x \in {"MULTILINE", "M"} -> {"MULTILINE"}
      [] x \in {"DOTALL", "S"} -> {"DOTALL"}
      [] x \in {"ASCII", "A"} -> {"ASCII"}
      [] x \in {"VERBOSE", "X"} -> {"VERBOSE"}
      [] OTHER -> {}

UpperTok(x) ==
    CASE x = "i" -> "I" [] x = "ignorecase" -> "IGNORECASE" [] x = "m" -> "M"
      [] x = "bogus" -> "BOGUS" [] OTHER -> x

LowerTok(x) ==
    CASE x = "Search" -> "search" [] x = "FULLMATCH" -> "fullmatch"
      [] x = "False" -> "false" [] x = "YES" -> "yes" [] x = "No" -> "no"
      [] OTHER -> x

re_compile(pattern, f) ==
    CASE pattern = "ACTIVE" ->
            [valid |-> TRUE, anchored |-> FALSE, alts |-> {sACTIVE}, flags |-> f]
      [] pattern = "1" ->
            [valid |-> TRUE, anchored |-> FALSE, alts |-> {<<"1">>}, flags |-> f]
      [] pattern = "^(ACTIVE|INACTIVE)$" ->
            [valid |-> TRUE, anchored |-> TRUE, alts |-> {sACTIVE, sINACTIVE}, flags |-> f]
      [] OTHER ->
            [valid |-> FALSE, anchored |-> FALSE, alts |-> {}, flags |-> f]

_compile(pattern, flags) ==
    re_compile(pattern, UNION { _FLAG_MAP(UpperTok(flags[i])) : i \in DOMAIN flags })

(* Variant: matching ignores case whatever the flags.                     *)
FoldAlways(rx, v) == Upper(v)

Fold(rx, v) == IF "IGNORECASE" \in rx.flags THEN Upper(v) ELSE v

rx_fullmatch(rx, v) == \E a \in rx.alts : Fold(rx, a) = Fold(rx, v)

rx_search(rx, v) ==
    IF rx.anchored THEN rx_fullmatch(rx, v)
    ELSE \E a \in rx.alts : IsSubstring(Fold(rx, a), Fold(rx, v))

_normalize_mode(mode_raw) ==
    LET m == LowerTok(mode_raw) IN
    IF m = "" THEN "fullmatch"
    ELSE IF m \in {"full", "match", "full_match", "full-match", "fullmatch"} THEN "fullmatch"
    ELSE IF m \in {"find", "search", "contains"} THEN "search"
    ELSE "fullmatch"

_parse_allow_null(x) ==
    LET s == LowerTok(x) IN
    IF s = "" THEN TRUE
    ELSE s \in {"1", "true", "t", "yes", "y", "allow", "allowed"}

RECURSIVE Dedup(_, _)
Dedup(tokens, seen) ==
    IF tokens = <<>> THEN <<>>
    ELSE IF Head(tokens) \in seen THEN Dedup(Tail(tokens), seen)
    ELSE <<Head(tokens)>> \o Dedup(Tail(tokens), seen \cup {Head(tokens)})

_parse_flags(flags_toks) ==
    Dedup([i \in DOMAIN flags_toks |-> UpperTok(flags_toks[i])], {})

(* --------------------------- the core check --------------------------- *)
(* A pandas Series is a sequence of (idx, val) entries in row order.      *)
ColumnSeries(d, column) ==
    [p \in DOMAIN d.index |-> [idx |-> d.index[p], val |-> d.data[column][p]]]

SeriesMap(s, F(_)) == [p \in DOMAIN s |-> [idx |-> s[p].idx, val |-> F(s[p].val)]]

SeriesFilter(s, Keep(_)) == SelectSeq(s, LAMBDA e : Keep(e))

SeriesIndex(s) == [p \in DOMAIN s |-> s[p].idx]

SeriesSum(s) == Cardinality({p \in DOMAIN s : s[p].val})

SeriesHead(s, n) == SubSeq(s, 1, IF Len(s) < n THEN Len(s) ELSE n)

sample_fail_values == 10

(* Variant: an empty dataset gets the rate 0.0.                           *)
PassRateZeroWhenEmpty(pass_count, total) ==
    IF total # 0
    THEN LET g == GCD(pass_count, total) IN [num |-> pass_count \div g, den |-> total \div g]
    ELSE [num |-> 0, den |-> 1]

PassRate(pass_count, total) ==
    IF total # 0
    THEN LET g == GCD(pass_count, total) IN [num |-> pass_count \div g, den |-> total \div g]
    ELSE [num |-> 1, den |-> 1]

NoCounts == [total |-> 0, pass |-> 0, fail |-> 0, null |-> 0, non_null |-> 0]

ErrorResult(error) ==
    [ok |-> FALSE, error |-> error, rule_type |-> "", column |-> "", pattern |-> "",
     mode |-> "", allow_null |-> TRUE, flags |-> <<>>, counts |-> NoCounts,
     pass_rate |-> [num |-> 0, den |-> 1], samples |-> [fail_values |-> <<>>],
     fail_indices |-> <<>>]

PassNull(allow_null, is_null, nulls) ==
    IF allow_null THEN is_null ELSE SeriesMap(nulls, LAMBDA v : FALSE)

(* Variant: null rows fail whatever the null policy.                      *)
FailNullAlways(allow_null, is_null, nulls) == is_null

FailNull(allow_null, is_null, nulls) ==
    IF allow_null THEN SeriesMap(nulls, LAMBDA v : FALSE) ELSE is_null

(* Variant: the null-row identifiers come first.                          *)
FailIndicesNullsFirst(non_null, fail_non_null, nulls, allow_null) ==
    (IF ~allow_null /\ Len(nulls) > 0 THEN SeriesIndex(nulls) ELSE <<>>)
    \o
    (IF SeriesSum(fail_non_null) > 0
     THEN SeriesIndex(SeriesFilter(non_null, LAMBDA e :
              \E q \in DOMAIN fail_non_null :
                  fail_non_null[q].idx = e.idx /\ fail_non_null[q].val))
     ELSE <<>>)

(* Variant: the null rows are never listed.                               *)
FailIndicesNonNullOnly(non_null, fail_non_null, nulls, allow_null) ==
    IF SeriesSum(fail_non_null) > 0
    THEN SeriesIndex(SeriesFilter(non_null, LAMBDA e :
             \E q \in DOMAIN fail_non_null :
                 fail_non_null[q].idx = e.idx /\ fail_non_null[q].val))
    ELSE <<>>

FailIndices(non_null, fail_non_null, nulls, allow_null) ==
    (IF SeriesSum(fail_non_null) > 0
     THEN SeriesIndex(SeriesFilter(non_null, LAMBDA e :
              \E q \in DOMAIN fail_non_null :
                  fail_non_null[q].idx = e.idx /\ fail_non_null[q].val))
     ELSE <<>>)
    \o
    (IF ~allow_null /\ Len(nulls) > 0 THEN SeriesIndex(nulls) ELSE <<>>)

check_regex_column(d, column, pattern, mode, allow_null, flags) ==
    IF ~HasColumn(d, column) THEN ErrorResult("Column not found")
    ELSE
    LET rx == _compile(pattern, flags) IN
    IF ~rx.valid THEN ErrorResult("Regex compile failed")
    ELSE
    LET s == SeriesMap(ColumnSeries(d, column), _to_str_or_none)
        is_null == SeriesMap(s, LAMBDA v : ~v.some)
        nulls == SeriesFilter(s, LAMBDA e : ~e.val.some)
        non_null == SeriesFilter(s, LAMBDA e : e.val.some)
        mode_norm == _normalize_mode(mode)
        matched == IF mode_norm = "search"
                   THEN SeriesMap(non_null, LAMBDA v : rx_search(rx, v.s))
                   ELSE SeriesMap(non_null, LAMBDA v : rx_fullmatch(rx, v.s))
        pass_non_null == matched
        fail_non_null == SeriesMap(matched, LAMBDA b : ~b)
        pass_null == PassNull(allow_null, is_null, nulls)
        fail_null == FailNull(allow_null, is_null, nulls)
        pass_count == SeriesSum(pass_non_null) + SeriesSum(pass_null)
        fail_count == SeriesSum(fail_non_null) + SeriesSum(fail_null)
        total == Len(s)
        failing == SeriesFilter(non_null, LAMBDA e :
                      \E q \in DOMAIN fail_non_null :
                          fail_non_null[q].idx = e.idx /\ fail_non_null[q].val)
        fail_values == [p \in DOMAIN SeriesHead(failing, sample_fail_values) |->
                           failing[p].val.s]
    IN
    [ok |-> TRUE, error |-> "", rule_type |-> "regex", column |-> column,
     pattern |-> pattern, mode |-> mode_norm, allow_null |-> allow_null,
     flags |-> [i \in DOMAIN flags |-> UpperTok(flags[i])],
     counts |-> [total |-> total, pass |-> pass_count, fail |-> fail_count,
                 null |-> SeriesSum(is_null),
                 non_null |-> SeriesSum(SeriesMap(is_null, LAMBDA b : ~b))],
     pass_rate |-> PassRate(pass_count, total),
     samples |-> [fail_values |-> fail_values],
     fail_indices |-> FailIndices(non_null, fail_non_null, nulls, allow_null)]

(* ------------------------------ exporters ----------------------------- *)
RECURSIVE SummaryRows(_, _)
SummaryRows(h, i) ==
    IF i > Len(h) THEN <<>>
    ELSE LET r == h[i] IN
         (IF ~r.ok THEN <<>>
          ELSE << [check_no |-> i,
                   rule_type |-> r.rule_type,
                   column |-> r.column,
                   pattern_or_expr |-> r.pattern,
                   mode |-> r.mode,
                   allow_null |-> r.allow_null,
                   flags |-> JoinWith(<<",">>, [k \in DOMAIN r.flags |-> <<r.flags[k]>>]),
                   total |-> r.counts.total,
                   pass |-> r.counts.pass,
                   fail |-> r.counts.fail,
                   null |-> r.counts.null,
                   non_null |-> r.counts.non_null,
                   pass_rate |-> r.pass_rate,
                   fail_samples |-> JoinWith(<<"|">>, r.samples.fail_values)] >>)
         \o SummaryRows(h, i + 1)

(* Variant: enumerate from 0.                                             *)
build_summary_df_from_zero(h) ==
    [k \in DOMAIN SummaryRows(h, 1) |->
        [SummaryRows(h, 1)[k] EXCEPT !.check_no = @ - 1]]

build_summary_df(h) == SummaryRows(h, 1)

IssueDesc(r) ==
    IF r.rule_type = "regex"
    THEN <<r.column, " !~ ", r.pattern>>
         \o (IF r.allow_null THEN <<>> ELSE <<" (NULL not allowed)">>)
    ELSE <<r.column, ": ", r.pattern>>
         \o (IF r.allow_null THEN <<>> ELSE <<" (NULL not allowed)">>)

(* fail_map: row identifier -> the descriptions appended for it, rule     *)
(* after rule and, within a rule, in fail_indices order.                  *)
(* Variant: a later rule's description replaces the earlier ones.         *)
SetDefaultOverwrite(fail_map, idx, desc) ==
    [k \in DOMAIN fail_map \cup {idx} |-> IF k = idx THEN <<desc>> ELSE fail_map[k]]

SetDefaultAppend(fail_map, idx, desc) ==
    IF idx \in DOMAIN fail_map
    THEN [fail_map EXCEPT ![idx] = Append(@, desc)]
    ELSE [k \in DOMAIN fail_map \cup {idx} |-> IF k = idx THEN <<desc>> ELSE fail_map[k]]

RECURSIVE AddRule(_, _, _)
AddRule(fail_map, fail_idx, desc) ==
    IF fail_idx = <<>> THEN fail_map
    ELSE AddRule(SetDefaultAppend(fail_map, Head(fail_idx), desc), Tail(fail_idx), desc)

RECURSIVE FailMap(_, _)
FailMap(h, fail_map) ==
    IF h = <<>> THEN fail_map
    ELSE LET r == Head(h) IN
         IF ~r.ok \/ r.fail_indices = <<>> THEN FailMap(Tail(h), fail_map)
         ELSE FailMap(Tail(h), AddRule(fail_map, r.fail_indices, IssueDesc(r)))

ExcelSafeCell(v) == IF v.t = "null" THEN StrCell(<<>>) ELSE v

HtmlSafeCell(v) == IF v.t = "null" THEN <<>> ELSE _to_str_or_none(v).s

(* Variant: the last row of the dataset is never looked at.               *)
PositionsOfButLast(d, keys) ==
    LET RECURSIVE Pos(_)
        Pos(p) == IF p >= Len(d.index) THEN <<>>
                  ELSE (IF d.index[p] \in keys THEN <<p>> ELSE <<>>) \o Pos(p + 1)
    IN Pos(1)

PositionsOf(d, keys) ==
    LET RECURSIVE Pos(_)
        Pos(p) == IF p > Len(d.index) THEN <<>>
                  ELSE (IF d.index[p] \in keys THEN <<p>> ELSE <<>>) \o Pos(p + 1)
    IN Pos(1)

build_failed_rows_df(d, h) ==
    LET fail_map == FailMap(h, <<>>) IN
    IF DOMAIN fail_map = {} THEN <<>>
    ELSE LET ordered == PositionsOf(d, DOMAIN fail_map) IN
         [k \in DOMAIN ordered |->
            [idx |-> d.index[ordered[k]],
             cells |-> [c \in DOMAIN d.columns |->
                           ExcelSafeCell(d.data[d.columns[c]][ordered[k]])],
             _dq_issue |-> <<"FAILED: ">>
                 \o JoinWith(<<" || ">>, fail_map[d.index[ordered[k]]])]]

NoDoc ==
    [kind |-> "none", path |-> "", include_failed_rows |-> FALSE, summary |-> <<>>,
     sheet |-> [note |-> "", rows |-> <<>>], fragments |-> <<>>,
     initial |-> [note |-> "", rows |-> <<>>]]

Note(text) == [note |-> text, rows |-> <<>>]
Table(rows) == [note |-> "", rows |-> rows]

export_excel(d, h, out_path, include_failed_rows) ==
    LET summary_df == build_summary_df(h)
        failed_df == IF include_failed_rows THEN build_failed_rows_df(d, h) ELSE <<>>
    IN [NoDoc EXCEPT
          !.kind = "xlsx", !.path = out_path,
          !.include_failed_rows = include_failed_rows,
          !.summary = summary_df,
          !.sheet = IF include_failed_rows
                    THEN (IF Len(failed_df) = 0 THEN Note("No failed rows.")
                          ELSE Table(failed_df))
                    ELSE Note("Failed rows not exported.")]

(* The failed rows of one rule, as export_html lays them out.             *)
(* Variant: the rows come in fail_indices order.                          *)
PerRuleFailedRowsInEvalOrder(d, r) ==
    LET PosOf(id) == CHOOSE p \in DOMAIN d.index : d.index[p] = id IN
    [k \in DOMAIN r.fail_indices |->
        [idx |-> r.fail_indices[k],
         cells |-> [c \in DOMAIN d.columns |->
                       HtmlSafeCell(d.data[d.columns[c]][PosOf(r.fail_indices[k])])],
         _dq_issue |-> <<"FAILED: ">> \o IssueDesc(r)]]

PerRuleFailedRows(d, r) ==
    LET ordered == PositionsOf(d, Range(r.fail_indices)) IN
    [k \in DOMAIN ordered |->
        [idx |-> d.index[ordered[k]],
         cells |-> [c \in DOMAIN d.columns |->
                       HtmlSafeCell(d.data[d.columns[c]][ordered[k]])],
         _dq_issue |-> <<"FAILED: ">> \o IssueDesc(r)]]

(* Variant: one note for a rule without failed rows, evaluated or not.    *)
CheckFailedHtmlOneNote(d, r) ==
    IF ~r.ok \/ r.fail_indices = <<>> \/ PerRuleFailedRows(d, r) = <<>>
    THEN Note("Rule error. No failed rows.")
    ELSE Table(PerRuleFailedRows(d, r))

CheckFailedHtml(d, r) ==
    IF ~r.ok THEN Note("Rule error. No failed rows.")
    ELSE IF r.fail_indices = <<>> THEN Note("No failed rows for this rule.")
    ELSE IF PerRuleFailedRows(d, r) = <<>> THEN Note("No failed rows for this rule.")
    ELSE Table(PerRuleFailedRows(d, r))

export_html(d, h, out_path, include_failed_rows) ==
    LET summary_df == build_summary_df(h)
        check_failed_html == [check_no \in DOMAIN h |-> CheckFailedHtml(d, h[check_no])]
    IN [NoDoc EXCEPT
          !.kind = "html", !.path = out_path,
          !.include_failed_rows = include_failed_rows,
          !.summary = summary_df,
          !.fragments = IF include_failed_rows THEN check_failed_html ELSE <<>>,
          !.initial =
              IF ~include_failed_rows THEN Note("Failed rows not included.")
              ELSE IF Len(summary_df) > 0
                   THEN (IF summary_df[1].check_no \in DOMAIN check_failed_html
                         THEN check_failed_html[summary_df[1].check_no]
                         ELSE Note("No failed rows."))
                   ELSE Note("No checks.")]

(* --------------------------- the dashboard ---------------------------- *)
(* The exported page in a browser: the summary rows carrying the class    *)
(* 'selected', the content of #failedContainer, the rule number in        *)
(* #failedTitle (0 while the title is the bare "Failed Rows"), and the    *)
(* summary row the last click landed in (0 when none has yet).            *)
NoPage ==
    [open |-> FALSE, doc |-> NoDoc, target |-> 0, selected |-> {},
     failedContainer |-> Note(""), failedTitle |-> 0]

(* data-check of the summary row at position row.                         *)
DataCheck(doc, row) == doc.summary[row].check_no

(* getElementById('frag-' + checkNo)                                      *)
HasFrag(doc, checkNo) == checkNo \in DOMAIN doc.fragments

clearSelected(p) == [p EXCEPT !.selected = {}]

showFailed(p, checkNo) ==
    IF ~HasFrag(p.doc, checkNo)
    THEN [p EXCEPT !.failedContainer = Note("No failed rows for this rule."),
                   !.failedTitle = checkNo]
    ELSE [p EXCEPT !.failedContainer = p.doc.fragments[checkNo],
                   !.failedTitle = checkNo]

(* Variant: the clicked row is marked without clearing the others.        *)
OnClickKeepsSelected(p, row) ==
    LET checkNo == DataCheck(p.doc, row)
        q == [p EXCEPT !.target = row, !.selected = @ \cup {row}]
    IN IF IntToStr(checkNo) # <<>> THEN showFailed(q, checkNo) ELSE q

(* The click listener, for a click inside the summary row at position row. *)
OnClick(p, row) ==
    LET checkNo == DataCheck(p.doc, row)
        q == [clearSelected(p) EXCEPT !.target = row, !.selected = @ \cup {row}]
    IN IF IntToStr(checkNo) # <<>> THEN showFailed(q, checkNo) ELSE q

(* The page as parsed, then the end of the script: the first summary row. *)
LoadPage(doc) ==
    LET p == [open |-> TRUE, doc |-> doc, target |-> 0, selected |-> {},
              failedContainer |-> doc.initial, failedTitle |-> 0]
    IN IF Len(doc.summary) > 0
       THEN LET q == [p EXCEPT !.selected = @ \cup {1}]
                checkNo == DataCheck(doc, 1)
            IN IF IntToStr(checkNo) # <<>> THEN showFailed(q, checkNo) ELSE q
       ELSE p

(* ------------------------------ the shell ----------------------------- *)
(* An input line, as the loop classifies it after strip():                *)
(*   blank | quit | cols | export <path> | export_dashboard [<path>] |    *)
(*   RULE | END | comment | text.  segs is what split("=>") returns.      *)
Line(k, path, segs) == [k |-> k, path |-> path, segs |-> segs]

Statements ==
    { <<"status", "^(ACTIVE|INACTIVE)$">>,
      <<"status", "^(ACTIVE|INACTIVE)$", "fullmatch", "false">>,
      <<"status", "ACTIVE", "Search", "No">>,
      <<"amount", " ", "1", "contains", "YES", "i,I bogus">>,
      <<"amount", "">>,
      <<"nocol", "ACTIVE">>,
      <<"status", "(">> }

Lines ==
    { Line("blank", "", <<"">>), Line("quit", "", <<":q">>), Line("cols", "", <<":cols">>),
      Line("export", "report.xlsx", <<":export report.xlsx">>),
      Line("export", "report.txt", <<":export report.txt">>),
      Line("export_dashboard", "dash.html", <<":export_dashboard dash.html">>),
      Line("export_dashboard", "", <<":export_dashboard">>),
      Line("RULE", "", <<"RULE">>), Line("END", "", <<"END">>),
      Line("comment", "", <<"# note">>) }
    \cup { Line("text", "", st) : st \in Statements }

(* The lines typed inside a RULE block: statements, blank and comment     *)
(* lines, and a command (which is then read as rule text).                *)
BlockLines == { l \in Lines : l.k \in {"blank", "comment", "quit", "text"} }

Answers == {"y", "n"}

StripTok(x) == IF x = " " THEN "" ELSE x

EndsWithLower(path, ext) ==
    \/ ext = ".xlsx" /\ path \in {"report.xlsx"}
    \/ ext = ".html" /\ path \in {"dash.html"}

SplitFlags(flags_str) ==
    CASE flags_str = "i,I bogus" -> <<"i", "I", "bogus">>
      [] flags_str = "" -> <<>>
      [] OTHER -> <<flags_str>>

_split_arrow(segs) ==
    SelectSeq([i \in DOMAIN segs |-> StripTok(segs[i])], LAMBDA x : x # "")

_ask_yes_no(ans) == ans \in {"y", "yes"}

Out(msg, asked, wrote) == [msg |-> msg, asked |-> asked, wrote |-> wrote]

(* pick first non-empty, non-comment line as rule statement *)
RECURSIVE FirstStmt(_)
FirstStmt(lines) ==
    IF lines = <<>> THEN <<>>
    ELSE IF Head(lines).k \in {"blank", "comment"} THEN FirstStmt(Tail(lines))
    ELSE <<Head(lines)>>

(* The result _execute_rule_stmt evaluates for a statement with at least  *)
(* two segments.                                                          *)
RuleResult(d, parts) ==
    check_regex_column(d, parts[1], parts[2],
        IF Len(parts) >= 3 THEN parts[3] ELSE "fullmatch",
        IF Len(parts) >= 4 THEN _parse_allow_null(parts[4]) ELSE TRUE,
        IF Len(parts) >= 5 THEN _parse_flags(SplitFlags(parts[5])) ELSE <<>>)

(* Variant: every result is kept, failed ones included.                  *)
RecordAlways(h, res) == Append(h, res)

(* Variant: a successful result goes to the front.                        *)
RecordAtFront(h, res) == IF res.ok THEN <<res>> \o h ELSE h

Record(h, res) == IF res.ok THEN Append(h, res) ELSE h

Init ==
    /\ df \in DataFrames
    /\ history = <<>>
    /\ in_rule = FALSE
    /\ rule_lines = <<>>
    /\ pc = "run"
    /\ line = Line("", "", <<>>)
    /\ out = Out("banner", FALSE, NoDoc)
    /\ page = NoPage

Blank ==
    /\ pc = "run" /\ ~in_rule
    /\ \E ln \in Lines : ln.k = "blank" /\ line' = ln
    /\ out' = Out("", FALSE, NoDoc)
    /\ UNCHANGED <<page, df, history, in_rule, rule_lines, pc>>

Quit ==
    /\ pc = "run" /\ ~in_rule
    /\ \E ln \in Lines : ln.k = "quit" /\ line' = ln
    /\ pc' = "done"
    /\ history' = <<>>
    /\ out' = Out("", FALSE, NoDoc)
    /\ UNCHANGED <<page, df, in_rule, rule_lines>>

Cols ==
    /\ pc = "run" /\ ~in_rule
    /\ \E ln \in Lines : ln.k = "cols" /\ line' = ln
    /\ out' = Out("cols", FALSE, NoDoc)
    /\ UNCHANGED <<page, df, history, in_rule, rule_lines, pc>>

(* Variant: no check that History holds anything.                         *)
ExportOutcomeUnguarded(d, h, ln, ans, io_ok) ==
    IF ~EndsWithLower(ln.path, ".xlsx")
    THEN Out("[ERROR] Please use .xlsx extension", FALSE, NoDoc)
    ELSE IF io_ok
    THEN Out("[OK] Exported Excel report", TRUE,
             export_excel(d, h, ln.path, _ask_yes_no(ans)))
    ELSE Out("[ERROR] Export failed", TRUE, NoDoc)

ExportOutcome(d, h, ln, ans, io_ok) ==
    IF ~EndsWithLower(ln.path, ".xlsx")
    THEN Out("[ERROR] Please use .xlsx extension", FALSE, NoDoc)
    ELSE IF h = <<>>
    THEN Out("[WARN] No checks to export yet.", FALSE, NoDoc)
    ELSE IF io_ok
    THEN Out("[OK] Exported Excel report", TRUE,
             export_excel(d, h, ln.path, _ask_yes_no(ans)))
    ELSE Out("[ERROR] Export failed", TRUE, NoDoc)

Export ==
    /\ pc = "run" /\ ~in_rule
    /\ \E ln \in Lines, ans \in Answers, io_ok \in BOOLEAN :
          /\ ln.k = "export"
          /\ line' = ln
          /\ out' = ExportOutcome(df, history, ln, ans, io_ok)
    /\ UNCHANGED <<page, df, history, in_rule, rule_lines, pc>>

ExportDashboardOutcome(d, h, ln, ans, io_ok) ==
    IF ln.path = ""
    THEN Out("[ERROR] Usage: :export_dashboard <path.html>", FALSE, NoDoc)
    ELSE IF ~EndsWithLower(ln.path, ".html")
    THEN Out("[ERROR] Please use .html extension", FALSE, NoDoc)
    ELSE IF h = <<>>
    THEN Out("[WARN] No checks to export yet.", FALSE, NoDoc)
    ELSE IF io_ok
    THEN Out("[OK] Exported HTML dashboard", TRUE,
             export_html(d, h, ln.path, _ask_yes_no(ans)))
    ELSE Out("[ERROR] Export failed", TRUE, NoDoc)

ExportDashboard ==
    /\ pc = "run" /\ ~in_rule
    /\ \E ln \in Lines, ans \in Answers, io_ok \in BOOLEAN :
          /\ ln.k = "export_dashboard"
          /\ line' = ln
          /\ out' = ExportDashboardOutcome(df, history, ln, ans, io_ok)
    /\ UNCHANGED <<page, df, history, in_rule, rule_lines, pc>>

BeginRule ==
    /\ pc = "run" /\ ~in_rule
    /\ \E ln \in Lines : ln.k = "RULE" /\ line' = ln
    /\ in_rule' = TRUE
    /\ rule_lines' = <<>>
    /\ out' = Out("", FALSE, NoDoc)
    /\ UNCHANGED <<page, df, history, pc>>

NotACommand ==
    /\ pc = "run" /\ ~in_rule
    /\ \E ln \in Lines : ln.k \in {"END", "comment", "text"} /\ line' = ln
    /\ out' = Out("[ERROR] Please start a rule with 'RULE'", FALSE, NoDoc)
    /\ UNCHANGED <<page, df, history, in_rule, rule_lines, pc>>

AppendRuleLine ==
    /\ pc = "run" /\ in_rule
    /\ Len(rule_lines) < MaxRuleLines
    /\ \E ln \in BlockLines :
          /\ ln.k # "END"
          /\ line' = ln
          /\ rule_lines' = Append(rule_lines, ln)
    /\ out' = Out("", FALSE, NoDoc)
    /\ UNCHANGED <<page, df, history, in_rule, pc>>

_execute_rule_stmt(d, stmt, h) ==
    LET parts == _split_arrow(stmt.segs) IN
    IF Len(parts) < 2
    THEN [history |-> h, msg |-> "[ERROR] Invalid rule line"]
    ELSE LET res == RuleResult(d, parts) IN
         [history |-> Record(h, res),
          msg |-> IF res.ok THEN "=== Regex Check Result ===" ELSE res.error]

EndRuleOutcome(d, lines, h) ==
    LET stmt == FirstStmt(lines) IN
    IF stmt = <<>>
    THEN [history |-> h, msg |-> "[ERROR] Empty RULE block"]
    ELSE _execute_rule_stmt(d, stmt[1], h)

EndRule ==
    /\ pc = "run" /\ in_rule
    /\ \E ln \in Lines : ln.k = "END" /\ line' = ln
    /\ LET o == EndRuleOutcome(df, rule_lines, history) IN
          /\ Len(o.history) <= MaxHistory
          /\ history' = o.history
          /\ out' = Out(o.msg, FALSE, NoDoc)
    /\ in_rule' = FALSE
    /\ rule_lines' = <<>>
    /\ UNCHANGED <<page, df, pc>>

Next ==
    \/ Blank
    \/ Quit
    \/ Cols
    \/ Export
    \/ ExportDashboard
    \/ BeginRule
    \/ NotACommand
    \/ AppendRuleLine
    \/ EndRule

Spec == Init /\ [][Next]_vars

(* ------------------------- browsing a dashboard ----------------------- *)
(* The page is a static file: what the shell does after it is opened does *)
(* not reach it, so the shell stands still while a page is open.          *)

(* The dashboard the shell has just written is opened.                    *)
OpenDashboard ==
    /\ ~page.open
    /\ out.wrote.kind = "html"
    /\ page' = LoadPage(out.wrote)
    /\ UNCHANGED <<df, history, in_rule, rule_lines, pc, line, out>>

(* exporters.export_html called on the dataset before any check was run   *)
(* (the shell refuses this export, the function does not), and the page   *)
(* opened.                                                                *)
OpenDirectExport ==
    /\ ~page.open
    /\ out.msg = "banner"
    /\ \E include_failed_rows \in BOOLEAN :
          page' = LoadPage(export_html(df, history, "dash.html", include_failed_rows))
    /\ UNCHANGED <<df, history, in_rule, rule_lines, pc, line, out>>

ClickRow ==
    /\ page.open
    /\ \E row \in DOMAIN page.doc.summary : page' = OnClick(page, row)
    /\ UNCHANGED <<df, history, in_rule, rule_lines, pc, line, out>>

(* A click in the summary table outside every tr.sum-row (the header, or  *)
(* the "No checks." row): the listener returns at once.                   *)
ClickElsewhere ==
    /\ page.open
    /\ UNCHANGED vars

NextDash ==
    \/ ~page.open /\ Blank
    \/ ~page.open /\ Quit
    \/ ~page.open /\ Cols
    \/ ~page.open /\ Export
    \/ ~page.open /\ ExportDashboard
    \/ ~page.open /\ BeginRule
    \/ ~page.open /\ NotACommand
    \/ ~page.open /\ AppendRuleLine
    \/ ~page.open /\ EndRule
    \/ OpenDashboard
    \/ OpenDirectExport
    \/ ClickRow
    \/ ClickElsewhere

SpecDash == Init /\ [][NextDash]_vars

(* ======================== properties of the code ====================== *)
Retained(h) == SelectSeq(h, LAMBDA r : r.ok)

PosSeq(n) == [p \in 1..n |-> p]

IdsAt(d, ps) == [k \in DOMAIN ps |-> d.index[ps[k]]]

RowIds(rows) == [k \in DOMAIN rows |-> rows[k].idx]

(* Does the cell satisfy the rule r, matched as r.mode says?              *)
Matches(r, cell) ==
    LET rx == _compile(r.pattern, r.flags)
        v == _to_str_or_none(cell).s
    IN IF r.mode = "search" THEN rx_search(rx, v) ELSE rx_fullmatch(rx, v)

NonNullFailPositions(d, r) ==
    SelectSeq(PosSeq(Len(d.index)), LAMBDA p :
        d.data[r.column][p].t # "null" /\ ~Matches(r, d.data[r.column][p]))

NullPositions(d, r) ==
    SelectSeq(PosSeq(Len(d.index)), LAMBDA p : d.data[r.column][p].t = "null")

(* C1: every successful check in History has                              *)
(* total = pass + fail = null + non_null = number of rows of the dataset. *)
C1_CountsPartitionRows ==
    \A i \in DOMAIN history :
        history[i].ok =>
            LET c == history[i].counts IN
            /\ c.total = c.pass + c.fail
            /\ c.total = c.null + c.non_null
            /\ c.total = Len(df.index)

C1_Witness ==
    \E i \in DOMAIN history :
        /\ history[i].ok /\ history[i].allow_null
        /\ history[i].counts.null > 0
        /\ history[i].counts.fail > 0
        /\ history[i].counts.pass > history[i].counts.null

(* C2: an END whose RULE block is in error (no statement, fewer than two  *)
(* non-empty segments, unknown column, pattern that does not compile)     *)
(* leaves History as it was and reports the matching error.               *)
StmtLines(lines) == SelectSeq(lines, LAMBDA l : l.k \notin {"blank", "comment"})

NonEmptySegs(l) == SelectSeq(l.segs, LAMBDA x : x \notin {"", " "})

BlockError(d, lines) ==
    IF StmtLines(lines) = <<>> THEN "[ERROR] Empty RULE block"
    ELSE LET parts == NonEmptySegs(StmtLines(lines)[1]) IN
         IF Len(parts) < 2 THEN "[ERROR] Invalid rule line"
         ELSE IF parts[1] \notin Range(d.columns) THEN "Column not found"
         ELSE IF ~_compile(parts[2], <<>>).valid THEN "Regex compile failed"
         ELSE ""

C2_ErrorLeavesHistory ==
    [][ (pc = "run" /\ in_rule /\ line'.k = "END" /\ BlockError(df, rule_lines) # "")
            => (history' = history /\ out'.msg = BlockError(df, rule_lines)) ]_vars

C2_Witness ==
    /\ line.k = "END" /\ ~in_rule
    /\ out.msg = "[ERROR] Invalid rule line"
    /\ history # <<>>

(* C3: History is append-only: a step leaves it unchanged, or an END that *)
(* closes a RULE block with a valid statement appends one ok result at    *)
(* the end, or the quit line ends the session and releases it.            *)
C3_AppendOnly ==
    [][ \/ history' = history
        \/ /\ in_rule /\ line'.k = "END" /\ BlockError(df, rule_lines) = ""
           /\ Len(history') = Len(history) + 1
           /\ SubSeq(history', 1, Len(history)) = history
           /\ history'[Len(history')].ok
        \/ /\ ~in_rule /\ line'.k = "quit" /\ pc' = "done"
           /\ history' = <<>> ]_vars

C3_Witness ==
    /\ Len(history) = 2 /\ history[1] # history[2]
    /\ line.k = "export_dashboard" /\ out.wrote.kind = "html"

(* C4: the summary has one row per retained result, in History order,     *)
(* and its check_no values are 1..n.                                      *)
SummaryNumbered(s, h) ==
    /\ Len(s) = Len(Retained(h))
    /\ \A k \in DOMAIN s :
          /\ s[k].check_no = k
          /\ s[k].column = Retained(h)[k].column
          /\ s[k].pattern_or_expr = Retained(h)[k].pattern
          /\ s[k].mode = Retained(h)[k].mode
          /\ s[k].allow_null = Retained(h)[k].allow_null
          /\ s[k].fail = Retained(h)[k].counts.fail

C4_SummaryCheckNo ==
    /\ SummaryNumbered(build_summary_df(history), history)
    /\ out.wrote.kind # "none" => SummaryNumbered(out.wrote.summary, history)

C4_Witness ==
    /\ out.wrote.kind = "xlsx"
    /\ Len(out.wrote.summary) = 2
    /\ out.wrote.summary[1].column # out.wrote.summary[2].column

(* C5: the combined failed-row view holds a dataset row iff its           *)
(* identifier is in the fail_indices of some retained rule, holds no row  *)
(* twice, and is empty when no rule has a failure.                        *)
FailedSomewhere(h, id) ==
    \E i \in DOMAIN h : h[i].ok /\ id \in Range(h[i].fail_indices)

CombinedViewExact(rows, d, h) ==
    /\ \A p \in DOMAIN d.index :
          (\E k \in DOMAIN rows : rows[k].idx = d.index[p]) <=> FailedSomewhere(h, d.index[p])
    /\ \A k \in DOMAIN rows : rows[k].idx \in Range(d.index)
    /\ NoDup(RowIds(rows))
    /\ (\A i \in DOMAIN h : h[i].fail_indices = <<>>) => rows = <<>>

C5_CombinedViewMembership ==
    (out.wrote.kind = "xlsx" /\ out.wrote.include_failed_rows)
        => CombinedViewExact(out.wrote.sheet.rows, df, history)

C5_Witness ==
    /\ out.wrote.kind = "xlsx" /\ out.wrote.include_failed_rows
    /\ Len(history) = 2
    /\ Len(out.wrote.sheet.rows) >= 1
    /\ \E p \in DOMAIN df.index : ~FailedSomewhere(history, df.index[p])
    /\ Range(history[1].fail_indices) # Range(history[2].fail_indices)
    /\ FailedSomewhere(history, df.index[Len(df.index)])

(* C6: for every retained rule, the per-rule view of the dashboard lists  *)
(* the rows of the combined view whose identifier is in the rule's        *)
(* fail_indices, both in dataset row order.                               *)
C6_PerRuleAgreesWithCombined ==
    (out.wrote.kind = "html" /\ out.wrote.include_failed_rows) =>
        LET combined == RowIds(build_failed_rows_df(df, history)) IN
        /\ combined = SelectSeq(df.index, LAMBDA id : id \in Range(combined))
        /\ \A i \in DOMAIN history :
              history[i].ok =>
                 LET F == Range(history[i].fail_indices)
                     per == RowIds(out.wrote.fragments[i].rows)
                 IN /\ per = SelectSeq(combined, LAMBDA id : id \in F)
                    /\ per = SelectSeq(df.index, LAMBDA id : id \in F)

C6_Witness ==
    /\ out.wrote.kind = "html" /\ out.wrote.include_failed_rows
    /\ \E i \in DOMAIN history :
          /\ Len(history[i].fail_indices) >= 2
          /\ RowIds(out.wrote.fragments[i].rows) # history[i].fail_indices

(* C7: fail_indices is the identifiers of the non-null rows that do not   *)
(* match, in column order, followed, only when allow_null is false, by    *)
(* the identifiers of the null rows, in column order; in both modes.      *)
C7_FailIndicesContent ==
    \A i \in DOMAIN history :
        history[i].ok =>
            history[i].fail_indices =
                IdsAt(df, NonNullFailPositions(df, history[i]))
                \o (IF history[i].allow_null THEN <<>>
                    ELSE IdsAt(df, NullPositions(df, history[i])))

C7_Witness ==
    \E i \in DOMAIN history :
        /\ history[i].ok /\ ~history[i].allow_null /\ history[i].mode = "search"
        /\ NullPositions(df, history[i]) # <<>>
        /\ NonNullFailPositions(df, history[i]) # <<>>
        /\ NullPositions(df, history[i])[1] < NonNullFailPositions(df, history[i])[1]

(* C8: the status column of the demo dataset under                        *)
(* status => ^(ACTIVE|INACTIVE)$ => fullmatch.                            *)
DemoRule(r, allow_null) ==
    /\ r.ok /\ r.column = "status" /\ r.pattern = "^(ACTIVE|INACTIVE)$"
    /\ r.mode = "fullmatch" /\ r.allow_null = allow_null /\ r.flags = <<>>

Permille(rate) == (1000 * rate.num) \div rate.den

(* C8 as stated: allow_null=false gives total=6, non_null=5, null=1,      *)
(* pass=2, fail=4, pass_rate about 0.333; allow_null=true gives fail=3,   *)
(* pass=3, pass_rate 0.5.                                                 *)
C8_AsStated ==
    df = DemoDF =>
        \A i \in DOMAIN history :
            /\ DemoRule(history[i], FALSE) =>
                  /\ history[i].counts =
                        [total |-> 6, pass |-> 2, fail |-> 4, null |-> 1, non_null |-> 5]
                  /\ Permille(history[i].pass_rate) = 333
            /\ DemoRule(history[i], TRUE) =>
                  /\ history[i].counts.fail = 3 /\ history[i].counts.pass = 3
                  /\ Permille(history[i].pass_rate) = 500

(* C8 amended: allow_null=false gives total=6, non_null=5, null=1,        *)
(* pass=3, fail=3, pass_rate 0.5; allow_null=true gives pass=4, fail=2,   *)
(* pass_rate 2/3.                                                         *)
C8_DemoCounts ==
    df = DemoDF =>
        \A i \in DOMAIN history :
            /\ DemoRule(history[i], FALSE) =>
                  /\ history[i].counts =
                        [total |-> 6, pass |-> 3, fail |-> 3, null |-> 1, non_null |-> 5]
                  /\ history[i].pass_rate = [num |-> 1, den |-> 2]
                  /\ history[i].fail_indices = <<2, 5, 4>>
            /\ DemoRule(history[i], TRUE) =>
                  /\ history[i].counts =
                        [total |-> 6, pass |-> 4, fail |-> 2, null |-> 1, non_null |-> 5]
                  /\ history[i].pass_rate = [num |-> 2, den |-> 3]
                  /\ history[i].fail_indices = <<2, 5>>

C8_Witness ==
    /\ df = DemoDF
    /\ \E i, j \in DOMAIN history :
          DemoRule(history[i], FALSE) /\ DemoRule(history[j], TRUE)

(* C9: pass_rate is pass / total when total > 0 and 1.0 when total = 0.   *)
C9_PassRate ==
    \A i \in DOMAIN history :
        history[i].ok =>
            LET c == history[i].counts
                rate == history[i].pass_rate
            IN /\ rate.den > 0
               /\ c.total > 0 => rate.num * c.total = c.pass * rate.den
               /\ c.total = 0 => rate.num = rate.den

C9_Witness ==
    /\ Len(df.index) = 0
    /\ \E i \in DOMAIN history : history[i].ok /\ history[i].counts.total = 0

(* C10 as stated: an export line read while History is empty is refused   *)
(* with the warning: nothing written, no question asked, History still    *)
(* empty, the shell still running.                                        *)
IsExportLine(l) == l.k \in {"export", "export_dashboard"}

HasRequiredExtension(l) ==
    \/ l.k = "export" /\ EndsWithLower(l.path, ".xlsx")
    \/ l.k = "export_dashboard" /\ EndsWithLower(l.path, ".html")

Refused(o) == o.wrote = NoDoc /\ ~o.asked

C10_AsStated ==
    [][ (pc = "run" /\ ~in_rule /\ history = <<>> /\ IsExportLine(line'))
            => /\ out'.msg = "[WARN] No checks to export yet."
               /\ Refused(out')
               /\ history' = <<>> /\ pc' = "run" ]_vars

(* C10 amended: an export line read while History is empty is refused:    *)
(* nothing written, no question asked, History still empty, the shell     *)
(* still running; the message is the warning when the target has the      *)
(* required extension, and the usage or extension error otherwise.        *)
C10_EmptyHistoryExportRefused ==
    [][ (pc = "run" /\ ~in_rule /\ history = <<>> /\ IsExportLine(line'))
            => /\ Refused(out')
               /\ history' = <<>> /\ pc' = "run" /\ ~in_rule'
               /\ out'.msg =
                    IF HasRequiredExtension(line')
                    THEN "[WARN] No checks to export yet."
                    ELSE IF line'.path = ""
                    THEN "[ERROR] Usage: :export_dashboard <path.html>"
                    ELSE IF line'.k = "export"
                    THEN "[ERROR] Please use .xlsx extension"
                    ELSE "[ERROR] Please use .html extension" ]_vars

C10_Witness ==
    /\ pc = "run" /\ ~in_rule /\ history = <<>>
    /\ line.k = "export" /\ HasRequiredExtension(line)
    /\ out.msg = "[WARN] No checks to export yet."
    /\ Refused(out)

(* ------------------------------------------------------------------ C11 *)
(* The summary row of the rule the open page is on: the clicked one, or   *)
(* on load the one with the lowest check_no.                              *)
CurrentRow ==
    IF page.target # 0 THEN page.target
    ELSE CHOOSE r \in DOMAIN page.doc.summary :
            \A o \in DOMAIN page.doc.summary :
                page.doc.summary[r].check_no <= page.doc.summary[o].check_no

Placeholders == {Note("No checks."), Note("Failed rows not included.")}

(* C11: in an open dashboard, on load and after any clicks, exactly one   *)
(* summary row is selected and the failed-row pane is that rule's: on     *)
(* load the rule with the lowest check_no, after a click the clicked      *)
(* rule, whose view (when the views are part of the page) is the content  *)
(* of the pane; with an empty History no row is selected and the pane     *)
(* holds a placeholder note attributed to no rule.                        *)
C11_OneRuleShown ==
    page.open =>
        IF history = <<>>
        THEN /\ page.selected = {}
             /\ page.failedTitle = 0
             /\ page.failedContainer \in Placeholders
        ELSE LET check_no == page.doc.summary[CurrentRow].check_no IN
             /\ page.selected = {CurrentRow}
             /\ page.failedTitle = check_no
             /\ page.doc.include_failed_rows
                    => page.failedContainer = CheckFailedHtml(df, history[check_no])
             /\ ~page.doc.include_failed_rows => page.failedContainer.rows = <<>>

(* The second rule was clicked and its rows replaced those of the first.  *)
C11_Witness ==
    /\ page.open /\ page.doc.include_failed_rows
    /\ Len(history) = 2
    /\ page.target = 2 /\ page.selected = {2}
    /\ page.failedContainer.rows # <<>>
    /\ page.failedContainer # page.doc.initial
    /\ page.doc.initial.rows # <<>>

(* ------------------------------------------------------------------ C12 *)
(* The History entry of the rule the open page is on.                     *)
CurrentRule == history[page.doc.summary[CurrentRow].check_no]

(* What the page holds for a rule that failed to evaluate.                *)
RuleErrorView(r) == CheckFailedHtml(df, [r EXCEPT !.ok = FALSE])

(* C12: when the selected rule produced zero failures, the pane holds a   *)
(* message and no rows, and the message is not the one written for a rule *)
(* that failed to evaluate.                                               *)
C12_EmptyStateMessage ==
    (page.open /\ history # <<>> /\ CurrentRule.counts.fail = 0) =>
        /\ page.failedContainer.rows = <<>>
        /\ page.failedContainer.note # ""
        /\ page.failedContainer # RuleErrorView(CurrentRule)

(* A rule without failures was clicked after a rule with failed rows had  *)
(* been on show.                                                          *)
C12_Witness ==
    /\ page.open /\ page.doc.include_failed_rows
    /\ Len(history) = 2 /\ page.target = 2
    /\ history[2].counts.fail = 0
    /\ history[1].counts.fail > 0
    /\ page.failedContainer = Note("No failed rows for this rule.")

(* ------------------------------------------------------------------ C13 *)
(* "<column> !~ <pattern>", then " (NULL not allowed)" iff ~allow_null.   *)
DescText(r) ==
    IF r.allow_null THEN <<r.column, " !~ ", r.pattern>>
    ELSE <<r.column, " !~ ", r.pattern, " (NULL not allowed)">>

(* The descriptions of the retained rules that failed row id, in History  *)
(* order, one per rule.                                                   *)
DescsFor(h, id) ==
    LET failing == SelectSeq(h, LAMBDA r : r.ok /\ id \in Range(r.fail_indices))
    IN [k \in DOMAIN failing |-> DescText(failing[k])]

(* C13: in the combined failed-row sheet, the issue text of each row is   *)
(* "FAILED: " and then the descriptions of exactly the retained rules     *)
(* whose fail_indices hold the row's identifier, once per rule, in        *)
(* History order, joined by " || "; a description is "<column> !~         *)
(* <pattern>", with " (NULL not allowed)" after it iff allow_null=false.  *)
C13_IssueText ==
    (out.wrote.kind = "xlsx" /\ out.wrote.include_failed_rows) =>
        \A k \in DOMAIN out.wrote.sheet.rows :
            out.wrote.sheet.rows[k]._dq_issue =
                <<"FAILED: ">>
                \o JoinWith(<<" || ">>, DescsFor(history, out.wrote.sheet.rows[k].idx))

(* One row failed by two different rules, one of which allows NULL, next  *)
(* to a row failed by one rule only.                                      *)
C13_Witness ==
    /\ out.wrote.kind = "xlsx" /\ out.wrote.include_failed_rows
    /\ Len(history) = 2
    /\ history[1].allow_null # history[2].allow_null
    /\ \E k \in DOMAIN out.wrote.sheet.rows :
          Len(DescsFor(history, out.wrote.sheet.rows[k].idx)) = 2
    /\ \E k \in DOMAIN out.wrote.sheet.rows :
          Len(DescsFor(history, out.wrote.sheet.rows[k].idx)) = 1

(* ------------------------------------------------------------------ C14 *)
(* C14: on a dataset whose row identifiers are unique, every successful   *)
(* check has a duplicate-free fail_indices of length counts.fail, and in  *)
(* a dashboard with the failed rows included each rule's view has as many *)
(* rows as the fail count in the rule's summary row.                      *)
C14_FailCountIsViewLength ==
    NoDup(df.index) =>
        /\ \A i \in DOMAIN history :
              history[i].ok =>
                  /\ NoDup(history[i].fail_indices)
                  /\ Len(history[i].fail_indices) = history[i].counts.fail
        /\ (out.wrote.kind = "html" /\ out.wrote.include_failed_rows) =>
              \A k \in DOMAIN out.wrote.summary :
                  Len(out.wrote.fragments[out.wrote.summary[k].check_no].rows)
                      = out.wrote.summary[k].fail

(* A dashboard with a rule that failed a null row and a non-null row, and *)
(* a rule that failed one row only.                                       *)
C14_Witness ==
    /\ out.wrote.kind = "html" /\ out.wrote.include_failed_rows
    /\ NoDup(df.index)
    /\ Len(history) = 2
    /\ \E i, j \in DOMAIN history :
          /\ history[i].counts.fail = 2 /\ history[i].counts.null = 1
          /\ Len(out.wrote.fragments[i].rows) = 2
          /\ history[j].counts.fail = 1
          /\ Len(out.wrote.fragments[j].rows) = 1

(* ------------------------------------------------------------------ C15 *)
(* C15: in an open dashboard exported without the failed rows, the pane   *)
(* holds the note "Failed rows not included.", on load and after every    *)
(* click, and never the note "No failed rows for this rule." while the    *)
(* rule it is on has a non-empty fail set.                                *)
C15_AsStated ==
    (page.open /\ ~page.doc.include_failed_rows) =>
        /\ page.failedContainer = Note("Failed rows not included.")
        /\ ~ /\ history # <<>>
             /\ CurrentRule.fail_indices # <<>>
             /\ page.failedContainer = Note("No failed rows for this rule.")

====
